---- MODULE Spec2Model ----
(***************************************************************************)
(* The board store of the task board (BoardProvider, BoardContext.tsx),    *)
(* the drag handlers of the Board component (BoardList.tsx) and the remote *)
(* gateway (the supabase client) they call.                                *)
(*                                                                         *)
(* Every context function is an async function: it sends a request, is     *)
(* suspended at the await, and resumes with the response.  A call in       *)
(* flight is a record of `calls`; pc = "sent" while the request waits for  *)
(* the remote store, pc = "replied" once the response waits for the        *)
(* continuation.  The code between two awaits runs to completion           *)
(* (JavaScript's single thread), so it is one action.                      *)
(***************************************************************************)
EXTENDS Integers, Sequences, FiniteSets, TLC

\* ------------------------------------------------------------------ bounds
NumBoards == 2      \* board ids 1..NumBoards
NumColumns == 2     \* column ids 1..NumColumns
NumCards == 3       \* card ids 1..NumCards
NumTags == 1        \* tag ids 1..NumTags
MaxCalls == 2       \* context calls in flight at once
MaxOps == 3         \* context calls made in one run of the whole program
DragOps == 2        \* context calls made in one run of SpecDrag
CreateOps == 3      \* context calls made in one run of SpecCreate
BoardOps == 3       \* context calls made in one run of SpecBoards
MutationOps == 2    \* context calls made in one run of SpecMutations
LoadOps == 2        \* context calls made in one run of SpecLoading
ValidateOps == 2    \* context calls made in one run of SpecValidate
PositionOps == 2    \* context calls made in one run of SpecPositions
ReloadOps == 3      \* context calls made in one run of SpecReload
TagOps == 3         \* context calls made in one run of SpecTags
MaxPosition == 3    \* no call is issued that would write a larger position

NULL == 0           \* null / undefined (no id is 0)

BoardIds == 1..NumBoards
ColumnIds == 1..NumColumns
CardIds == 1..NumCards
TagIds == 1..NumTags
Titles == {"t1", "t2"}

VARIABLES
    boards,        \* useState<Board[]>: sequence of board ids
    currentBoard,  \* useState<Board | null>: a board id or NULL
    columns,       \* useState<Column[]>: sequence of [id, board_id, position]
    cards,         \* useState<Card[]>: sequence of [id, column_id, position, title, tags]
    tags,          \* useState<Tag[]>: sequence of tag ids
    isLoading,     \* useState(true)
    activeCardId,  \* Board's useState<string | null>(null)
    dragging,      \* DndContext: the id of the draggable being dragged, or NULL
    toast,         \* the last toast shown ("" before the first)
    calls,         \* the context calls in flight, in the order they were issued
    dbBoards,      \* remote table boards: set of ids
    dbColumns,     \* remote table columns: set of [id, board_id, position]
    dbCards,       \* remote table cards: set of [id, column_id, position, title]
    dbCardTags,    \* remote table card_tags: set of <<card_id, tag_id>>
    dbNext,        \* the ids the remote store has handed out, per table
    budget,        \* how many more context calls the environment makes
    returned,      \* what the context call that returned last gave its caller
    consumer       \* who calls the context: "components" (the shipped
                   \* components, whose handlers exist only while they are
                   \* rendered) or "any" (any consumer of useBoard)

store == <<boards, currentBoard, columns, cards, tags>>
session == <<activeCardId, dragging>>
db == <<dbBoards, dbColumns, dbCards, dbCardTags, dbNext>>
vars == <<boards, currentBoard, columns, cards, tags, isLoading, activeCardId,
          dragging, toast, calls, dbBoards, dbColumns, dbCards, dbCardTags, dbNext,
          consumer, budget, returned>>

\* ------------------------------------------------------- array helpers
Range(s) == {s[i] : i \in DOMAIN s}

\* Array.prototype.sort((a, b) => a.position - b.position): a stable sort
RECURSIVE SortedByPosition(_)
SortedByPosition(s) ==
    IF s = <<>> THEN <<>>
    ELSE LET i == CHOOSE k \in DOMAIN s :
                     /\ \A j \in DOMAIN s : s[k].position <= s[j].position
                     /\ \A j \in 1..(k - 1) : s[j].position > s[k].position
             rest == [j \in 1..(Len(s) - 1) |-> IF j < i THEN s[j] ELSE s[j + 1]]
         IN <<s[i]>> \o SortedByPosition(rest)

\* Math.max(...s.map(x => x.position)) of a non-empty array
MaxPositionOf(s) == CHOOSE p \in {s[i].position : i \in DOMAIN s} :
                        \A i \in DOMAIN s : s[i].position <= p

\* arrayMove(array, from, to) of dnd-kit, on 1-based indexes: the element at
\* `from` is taken out and put back at index `to`.
arrayMove(s, from, to) ==
    LET without == [j \in 1..(Len(s) - 1) |-> IF j < from THEN s[j] ELSE s[j + 1]]
    IN [j \in 1..Len(s) |->
           IF j < to THEN without[j] ELSE IF j = to THEN s[from] ELSE without[j - 1]]

\* ----------------------------------------------------- the remote store
\* .order('position') of a remote select: rows by position, equal positions
\* by id (the store's order among equal keys is not specified by the query).
RECURSIVE OrderByPosition(_)
OrderByPosition(S) ==
    IF S = {} THEN <<>>
    ELSE LET m == CHOOSE x \in S : \A y \in S :
                      \/ x.position < y.position
                      \/ (x.position = y.position /\ x.id <= y.id)
         IN <<m>> \o OrderByPosition(S \ {m})

\* .order('created_at', { ascending: false }) of boards: ids are handed out
\* in creation order, so newest first is largest id first.
RECURSIVE NewestFirst(_)
NewestFirst(S) ==
    IF S = {} THEN <<>>
    ELSE LET m == CHOOSE x \in S : \A y \in S : y <= x
         IN <<m>> \o NewestFirst(S \ {m})

\* .order('name') of tags (names are taken in id order)
RECURSIVE ByName(_)
ByName(S) ==
    IF S = {} THEN <<>>
    ELSE LET m == CHOOSE x \in S : \A y \in S : x <= y
         IN <<m>> \o ByName(S \ {m})

\* .order('position', { ascending: false }).limit(1)
TopPosition(S) ==
    IF S = {} THEN <<>>
    ELSE LET o == OrderByPosition(S) IN <<o[Len(o)]>>

\* the tag ids joined to a card row by tags:card_tags(tag_id)
TagIdsOf(cardId) == ByName({t \in TagIds : <<cardId, t>> \in dbCardTags})

\* ------------------------------------------------------ calls in flight
\* One record shape for every call; a field a call does not use keeps its
\* default.
NoCall == [op |-> "", step |-> "", pc |-> "sent", res |-> "",
           id |-> NULL, parent |-> NULL, position |-> 0, title |-> "",
           tag |-> NULL, rows |-> <<>>, ids |-> {}, closure |-> <<>>,
           \* what handleDragEnd saw when it made the call (not read by the code
           \* after the call): the branch taken, the dragged card's column and,
           \* for a reorder, the ids of newOrder
           \* and how many cards the destination column held
           kind |-> "", from |-> NULL, order |-> <<>>, held |-> 0,
           \* <<the store when the call was made>> for as long as no other call
           \* has been in flight with this one, else <<>> (never read by the code)
           before |-> <<>>,
           \* the number of the call in issue order, counted down (never read by
           \* the code), and <<the latest-issued successful update of the same
           \* card that returned while this call was in flight>>, else <<>>
           seq |-> 0, outrun |-> <<>>,
           \* setCurrentBoard(null) was called while this call was in flight
           \* (never read by the code)
           left |-> FALSE]

\* calls in flight that are no longer alone
NotAlone(cs) == [k \in DOMAIN cs |-> [cs[k] EXCEPT !.before = <<>>]]

\* the async function is called: it runs to its first await
Start(c) ==
    /\ calls' = Append(NotAlone(calls),
                       [c EXCEPT !.before = IF calls = <<>> THEN <<store>> ELSE <<>>,
                                 !.seq = budget])
    /\ budget' = budget - 1

\* the operations that write fields of one card
CardUpdates == {"updateCardPosition", "updateCard"}

\* the call c once the call `later`, issued after it, has returned
Outrun(c, later) ==
    IF /\ c.op \in CardUpdates /\ later.op \in CardUpdates
       /\ c.id = later.id /\ later.res = "ok"
       /\ (c.outrun = <<>> \/ later.seq < c.outrun[1].seq)
    THEN [c EXCEPT !.outrun = <<[op |-> later.op, parent |-> later.parent,
                                 position |-> later.position, title |-> later.title,
                                 seq |-> later.seq]>>]
    ELSE c

\* the calls without the i-th: the async function has returned
Returned(i) ==
    [j \in 1..(Len(calls) - 1) |-> IF j < i THEN Outrun(calls[j], calls[i]) ELSE calls[j + 1]]

\* what a call gives its caller: nothing (a function without a return
\* statement on that path), null, or an entity
ReturnedNothing == [kind |-> "undefined", entity |-> <<>>]
ReturnedNull == [kind |-> "null", entity |-> <<>>]
ReturnedEntity(e) == [kind |-> "entity", entity |-> <<e>>]
NoReturn == [op |-> "", kind |-> "", entity |-> <<>>]

\* the i-th call returns `value` to its caller
Returns(i, value) ==
    /\ calls' = Returned(i)
    /\ returned' = [op |-> calls[i].op, kind |-> value.kind, entity |-> value.entity]

Waiting(i, op, step) ==
    /\ i \in DOMAIN calls
    /\ calls[i].op = op
    /\ calls[i].step = step
    /\ calls[i].pc = "sent"

Resumes(i, op, step) ==
    /\ i \in DOMAIN calls
    /\ calls[i].op = op
    /\ calls[i].step = step
    /\ calls[i].pc = "replied"

Reply(i, res, rows) ==
    calls' = [calls EXCEPT ![i] = [@ EXCEPT !.pc = "replied", !.res = res, !.rows = rows]]

CanIssue == Len(calls) < MaxCalls /\ budget > 0

\* The request of call i is rejected by the gateway (network error, store
\* error): { data: null, error }.  The remote store is unchanged.
gatewayRejects(i) ==
    /\ i \in DOMAIN calls
    /\ calls[i].pc = "sent"
    /\ ~(calls[i].op = "fetchBoardData" /\ calls[i].step = "tags")
    /\ Reply(i, "err", <<>>)
    /\ UNCHANGED <<boards, currentBoard, columns, cards, tags, isLoading,
                   session, toast, db, consumer, returned, budget>>

\* ------------------------------------------------------------- rendering
\* AppContent: the spinner while isLoading, else Board when a board is
\* selected, else BoardList.
View == IF isLoading THEN "spinner"
        ELSE IF currentBoard # NULL THEN "Board" ELSE "BoardList"

\* The handlers of a component can be invoked while it is rendered.
Rendered(view) == consumer = "any" \/ View = view

\* cards.filter(card => card.column_id === columnId)
CardsOfColumn(cs, columnId) == SelectSeq(cs, LAMBDA card : card.column_id = columnId)

\* cards.find(card => card.id === cardId) !== undefined
HasCard(cs, cardId) == \E k \in DOMAIN cs : cs[k].id = cardId

\* cards.find(card => card.id === cardId), for an id that is found
FindCard(cs, cardId) == cs[CHOOSE k \in DOMAIN cs :
                              cs[k].id = cardId /\ \A j \in 1..(k - 1) : cs[j].id # cardId]

\* columns.find(column => column.id === columnId) !== undefined
HasColumn(cols, columnId) == \E k \in DOMAIN cols : cols[k].id = columnId

\* columnCards.findIndex(card => card.id === cardId), 1-based, 0 for -1
IndexOfCard(cs, cardId) ==
    IF HasCard(cs, cardId)
    THEN CHOOSE k \in DOMAIN cs : cs[k].id = cardId /\ \A j \in 1..(k - 1) : cs[j].id # cardId
    ELSE 0

\* --------------------------------------------------------- fetchBoards
\* select * from boards order by created_at desc
dbSelectBoards(i) ==
    /\ Waiting(i, "fetchBoards", "boards")
    /\ Reply(i, "ok", NewestFirst(dbBoards))
    /\ UNCHANGED <<boards, currentBoard, columns, cards, tags, isLoading,
                   session, toast, db, consumer, returned, budget>>

fetchBoardsResumes(i) ==
    /\ Resumes(i, "fetchBoards", "boards")
    /\ IF calls[i].res = "ok"
       THEN boards' = calls[i].rows /\ UNCHANGED toast
       ELSE toast' = "Failed to load boards" /\ UNCHANGED boards
    /\ isLoading' = FALSE
    /\ Returns(i, ReturnedNothing)
    /\ UNCHANGED <<currentBoard, columns, cards, tags, session, db, consumer, budget>>

\* ----------------------------------------------------------- fetchTags
\* select * from tags order by name
dbSelectTags(i) ==
    /\ Waiting(i, "fetchTags", "tags")
    /\ Reply(i, "ok", ByName(TagIds))
    /\ UNCHANGED <<boards, currentBoard, columns, cards, tags, isLoading,
                   session, toast, db, consumer, returned, budget>>

fetchTagsResumes(i) ==
    /\ Resumes(i, "fetchTags", "tags")
    /\ IF calls[i].res = "ok"
       THEN tags' = calls[i].rows /\ UNCHANGED toast
       ELSE toast' = "Failed to load tags" /\ UNCHANGED tags
    /\ Returns(i, ReturnedNothing)
    /\ UNCHANGED <<boards, currentBoard, columns, cards, isLoading, session,
                   db, consumer, budget>>

\* ------------------------------------------------------ fetchBoardData
\* handleSelectBoard of BoardList: fetchBoardData(boardId)
fetchBoardData(boardId) ==
    /\ Rendered("BoardList")
    /\ CanIssue
    /\ boardId \in Range(boards)
    /\ isLoading' = TRUE
    /\ Start([NoCall EXCEPT !.op = "fetchBoardData", !.step = "board",
                                     !.id = boardId])
    /\ UNCHANGED <<boards, currentBoard, columns, cards, tags, session, toast,
                   db, consumer, returned>>

\* select * from boards where id = boardId, .single(): no row is an error
dbSelectBoard(i) ==
    /\ Waiting(i, "fetchBoardData", "board")
    /\ IF calls[i].id \in dbBoards
       THEN Reply(i, "ok", <<calls[i].id>>)
       ELSE Reply(i, "err", <<>>)
    /\ UNCHANGED <<boards, currentBoard, columns, cards, tags, isLoading,
                   session, toast, db, consumer, returned, budget>>

\* catch and finally of fetchBoardData
fetchBoardDataFails(i) ==
    /\ toast' = "Failed to load board data"
    /\ isLoading' = FALSE
    /\ Returns(i, ReturnedNothing)

fetchBoardDataBoard(i) ==
    /\ Resumes(i, "fetchBoardData", "board")
    /\ IF calls[i].res = "ok"
       THEN /\ currentBoard' = calls[i].rows[1]
            /\ calls' = [calls EXCEPT ![i] = [@ EXCEPT !.step = "columns", !.pc = "sent",
                                                       !.res = "", !.rows = <<>>]]
            /\ UNCHANGED <<toast, isLoading, returned>>
       ELSE fetchBoardDataFails(i) /\ UNCHANGED currentBoard
    /\ UNCHANGED <<boards, columns, cards, tags, session, db, consumer, budget>>

\* select * from columns where board_id = boardId order by position
dbSelectColumns(i) ==
    /\ Waiting(i, "fetchBoardData", "columns")
    /\ Reply(i, "ok", OrderByPosition({c \in dbColumns : c.board_id = calls[i].id}))
    /\ UNCHANGED <<boards, currentBoard, columns, cards, tags, isLoading,
                   session, toast, db, consumer, returned, budget>>

fetchBoardDataColumns(i) ==
    /\ Resumes(i, "fetchBoardData", "columns")
    /\ IF calls[i].res = "ok"
       THEN /\ columns' = calls[i].rows
            /\ calls' = [calls EXCEPT ![i] =
                   [@ EXCEPT !.step = "cards", !.pc = "sent", !.res = "", !.rows = <<>>,
                             !.ids = {calls[i].rows[k].id : k \in DOMAIN calls[i].rows}]]
            /\ UNCHANGED <<toast, isLoading, returned>>
       ELSE fetchBoardDataFails(i) /\ UNCHANGED columns
    /\ UNCHANGED <<boards, currentBoard, cards, tags, session, db, consumer, budget>>

\* select *, tags:card_tags(tag_id) from cards where column_id in (...) order
\* by position: each row carries the tag ids joined to it
dbSelectCards(i) ==
    /\ Waiting(i, "fetchBoardData", "cards")
    /\ LET rows == OrderByPosition({c \in dbCards : c.column_id \in calls[i].ids})
       IN Reply(i, "ok", [k \in DOMAIN rows |->
              [id |-> rows[k].id, column_id |-> rows[k].column_id,
               position |-> rows[k].position, title |-> rows[k].title,
               tags |-> TagIdsOf(rows[k].id)]])
    /\ UNCHANGED <<boards, currentBoard, columns, cards, tags, isLoading,
                   session, toast, db, consumer, returned, budget>>

\* Cards without tag ids are processed without a request, so when no card has
\* any, setCards follows the response at once; otherwise the tag rows of the
\* cards are awaited (Promise.all).
fetchBoardDataCards(i) ==
    /\ Resumes(i, "fetchBoardData", "cards")
    /\ IF calls[i].res = "ok"
       THEN IF \A k \in DOMAIN calls[i].rows : calls[i].rows[k].tags = <<>>
            THEN /\ cards' = calls[i].rows
                 /\ isLoading' = FALSE
                 /\ Returns(i, ReturnedNothing)
                 /\ UNCHANGED toast
            ELSE /\ calls' = [calls EXCEPT ![i] =
                        [@ EXCEPT !.step = "tags", !.pc = "sent", !.res = ""]]
                 /\ UNCHANGED <<cards, toast, isLoading, returned>>
       ELSE fetchBoardDataFails(i) /\ UNCHANGED cards
    /\ UNCHANGED <<boards, currentBoard, columns, tags, session, db, consumer, budget>>

\* select * from tags where id in (tagIds), one request per card with tags;
\* a request that fails leaves tagData null, and the card gets tags: [].
dbSelectTagsOfCards(i) ==
    /\ Waiting(i, "fetchBoardData", "tags")
    /\ \E failed \in SUBSET {k \in DOMAIN calls[i].rows : calls[i].rows[k].tags # <<>>} :
           Reply(i, "ok", [k \in DOMAIN calls[i].rows |->
               IF k \in failed THEN [calls[i].rows[k] EXCEPT !.tags = <<>>]
               ELSE calls[i].rows[k]])
    /\ UNCHANGED <<boards, currentBoard, columns, cards, tags, isLoading,
                   session, toast, db, consumer, returned, budget>>

fetchBoardDataTags(i) ==
    /\ Resumes(i, "fetchBoardData", "tags")
    /\ cards' = calls[i].rows
    /\ isLoading' = FALSE
    /\ Returns(i, ReturnedNothing)
    /\ UNCHANGED <<boards, currentBoard, columns, tags, session, toast, db, consumer, budget>>

\* ----------------------------------------------------- setCurrentBoard
\* the back button of Board: setCurrentBoard(null)
setCurrentBoardNull ==
    /\ Rendered("Board")
    /\ currentBoard # NULL
    /\ currentBoard' = NULL
    /\ calls' = [k \in DOMAIN calls |-> [NotAlone(calls)[k] EXCEPT !.left = TRUE]]
    /\ UNCHANGED <<boards, columns, cards, tags, isLoading, session, toast,
                   db, consumer, returned, budget>>

\* ----------------------------------------------------------- createBoard
\* inserts of `op` that the remote store has not yet been asked for or served
PendingInserts(op) ==
    Cardinality({i \in DOMAIN calls :
                    calls[i].op = op /\ (calls[i].step = "read" \/ calls[i].pc = "sent")})

\* handleCreateBoard of BoardList, for a title that is not blank
createBoard ==
    /\ Rendered("BoardList")
    /\ CanIssue
    /\ dbNext.board + PendingInserts("createBoard") < NumBoards
    /\ Start([NoCall EXCEPT !.op = "createBoard", !.step = "insert"])
    /\ UNCHANGED <<boards, currentBoard, columns, cards, tags, isLoading,
                   session, toast, db, consumer, returned>>

\* insert into boards ... .select().single()
dbInsertBoard(i) ==
    /\ Waiting(i, "createBoard", "insert")
    /\ dbNext' = [dbNext EXCEPT !.board = @ + 1]
    /\ dbBoards' = dbBoards \cup {dbNext.board + 1}
    /\ Reply(i, "ok", <<dbNext.board + 1>>)
    /\ UNCHANGED <<boards, currentBoard, columns, cards, tags, isLoading,
                   session, toast, dbColumns, dbCards, dbCardTags, consumer, returned, budget>>

createBoardResumes(i) ==
    /\ Resumes(i, "createBoard", "insert")
    /\ IF calls[i].res = "ok"
       THEN boards' = <<calls[i].rows[1]>> \o boards /\ toast' = "Board created"
       ELSE toast' = "Failed to create board" /\ UNCHANGED boards
    /\ Returns(i, IF calls[i].res = "ok" THEN ReturnedEntity(calls[i].rows[1])
                  ELSE ReturnedNull)
    /\ UNCHANGED <<currentBoard, columns, cards, tags, isLoading, session,
                   db, consumer, budget>>

\* ---------------------------------------------------------- createColumn
\* NextPosition giving -1 for the first entity of a parent
NextPositionMinusOne(res, rows) ==
    IF res = "ok" /\ Len(rows) > 0 THEN rows[1].position + 1 ELSE -1

\* existing && existing.length > 0 ? existing[0].position + 1 : 0, where
\* existing is null when the read failed (its error is not looked at)
NextPosition(res, rows) ==
    IF res = "ok" /\ Len(rows) > 0 THEN rows[1].position + 1 ELSE 0

\* the largest position the remote store or a call in flight holds for `op`
Headroom(rowsOfTable, op) ==
    /\ \A r \in rowsOfTable : r.position < MaxPosition
    /\ \A i \in DOMAIN calls : calls[i].op = op => calls[i].position < MaxPosition

\* handleCreateColumn of Board, for a title that is not blank:
\* createColumn(title, currentBoard.id)
createColumn ==
    /\ Rendered("Board")
    /\ CanIssue
    /\ currentBoard # NULL
    /\ dbNext.column + PendingInserts("createColumn") < NumColumns
    /\ Headroom(dbColumns, "createColumn")
    /\ Start([NoCall EXCEPT !.op = "createColumn", !.step = "read",
                                     !.parent = currentBoard])
    /\ UNCHANGED <<boards, currentBoard, columns, cards, tags, isLoading,
                   session, toast, db, consumer, returned>>

\* select position from columns where board_id = boardId
\* order by position desc limit 1
dbSelectTopColumn(i) ==
    /\ Waiting(i, "createColumn", "read")
    /\ Reply(i, "ok", TopPosition({c \in dbColumns : c.board_id = calls[i].parent}))
    /\ UNCHANGED <<boards, currentBoard, columns, cards, tags, isLoading,
                   session, toast, db, consumer, returned, budget>>

createColumnPosition(i) ==
    /\ Resumes(i, "createColumn", "read")
    /\ calls' = [calls EXCEPT ![i] =
           [@ EXCEPT !.step = "insert", !.pc = "sent", !.res = "", !.rows = <<>>,
                     !.position = NextPosition(calls[i].res, calls[i].rows)]]
    /\ UNCHANGED <<boards, currentBoard, columns, cards, tags, isLoading,
                   session, toast, db, consumer, returned, budget>>

\* insert into columns (title, board_id, position): the board must exist
dbInsertColumn(i) ==
    /\ Waiting(i, "createColumn", "insert")
    /\ IF calls[i].parent \in dbBoards
       THEN LET row == [id |-> dbNext.column + 1, board_id |-> calls[i].parent,
                        position |-> calls[i].position]
            IN /\ dbNext' = [dbNext EXCEPT !.column = @ + 1]
               /\ dbColumns' = dbColumns \cup {row}
               /\ Reply(i, "ok", <<row>>)
       ELSE Reply(i, "err", <<>>) /\ UNCHANGED <<dbNext, dbColumns>>
    /\ UNCHANGED <<boards, currentBoard, columns, cards, tags, isLoading,
                   session, toast, dbBoards, dbCards, dbCardTags, consumer, returned, budget>>

createColumnResumes(i) ==
    /\ Resumes(i, "createColumn", "insert")
    /\ IF calls[i].res = "ok"
       THEN columns' = Append(columns, calls[i].rows[1]) /\ toast' = "Column created"
       ELSE toast' = "Failed to create column" /\ UNCHANGED columns
    /\ Returns(i, IF calls[i].res = "ok" THEN ReturnedEntity(calls[i].rows[1])
                  ELSE ReturnedNull)
    /\ UNCHANGED <<boards, currentBoard, cards, tags, isLoading, session,
                   db, consumer, budget>>

\* ------------------------------------------------------------ createCard
\* createCard(title, columnId) is called.  The shipped caller is
\* handleCreateCard of a rendered Column, which calls it with column.id and
\* only for a title that is not blank; createCard itself looks at neither.
createCard(title, columnId) ==
    /\ Rendered("Board")
    /\ CanIssue
    /\ consumer = "components" => (title # "" /\ HasColumn(columns, columnId))
    /\ dbNext.card + PendingInserts("createCard") < NumCards
    /\ Headroom(dbCards, "createCard")
    /\ Start([NoCall EXCEPT !.op = "createCard", !.step = "read",
                                     !.parent = columnId, !.title = title])
    /\ UNCHANGED <<boards, currentBoard, columns, cards, tags, isLoading,
                   session, toast, db, consumer, returned>>

\* select position from cards where column_id = columnId
\* order by position desc limit 1
dbSelectTopCard(i) ==
    /\ Waiting(i, "createCard", "read")
    /\ Reply(i, "ok", TopPosition({c \in dbCards : c.column_id = calls[i].parent}))
    /\ UNCHANGED <<boards, currentBoard, columns, cards, tags, isLoading,
                   session, toast, db, consumer, returned, budget>>

createCardPosition(i) ==
    /\ Resumes(i, "createCard", "read")
    /\ calls' = [calls EXCEPT ![i] =
           [@ EXCEPT !.step = "insert", !.pc = "sent", !.res = "", !.rows = <<>>,
                     !.position = NextPosition(calls[i].res, calls[i].rows)]]
    /\ UNCHANGED <<boards, currentBoard, columns, cards, tags, isLoading,
                   session, toast, db, consumer, returned, budget>>

\* insert into cards (title, column_id, position): the column must exist
dbInsertCard(i) ==
    /\ Waiting(i, "createCard", "insert")
    /\ IF \E c \in dbColumns : c.id = calls[i].parent
       THEN LET row == [id |-> dbNext.card + 1, column_id |-> calls[i].parent,
                        position |-> calls[i].position, title |-> calls[i].title]
            IN /\ dbNext' = [dbNext EXCEPT !.card = @ + 1]
               /\ dbCards' = dbCards \cup {row}
               /\ Reply(i, "ok", <<row>>)
       ELSE Reply(i, "err", <<>>) /\ UNCHANGED <<dbNext, dbCards>>
    /\ UNCHANGED <<boards, currentBoard, columns, cards, tags, isLoading,
                   session, toast, dbBoards, dbColumns, dbCardTags, consumer, returned, budget>>

\* { ...data, tags: [] }
NewCard(row) == [id |-> row.id, column_id |-> row.column_id, position |-> row.position,
                 title |-> row.title, tags |-> <<>>]

\* createCardResumes whose catch block returns nothing
createCardResumesNoReturn(i) ==
    /\ Resumes(i, "createCard", "insert")
    /\ IF calls[i].res = "ok"
       THEN cards' = Append(cards, NewCard(calls[i].rows[1])) /\ toast' = "Card created"
       ELSE toast' = "Failed to create card" /\ UNCHANGED cards
    /\ Returns(i, IF calls[i].res = "ok" THEN ReturnedEntity(NewCard(calls[i].rows[1]))
                  ELSE ReturnedNothing)
    /\ UNCHANGED <<boards, currentBoard, columns, tags, isLoading, session,
                   db, consumer, budget>>

createCardResumes(i) ==
    /\ Resumes(i, "createCard", "insert")
    /\ IF calls[i].res = "ok"
       THEN cards' = Append(cards, NewCard(calls[i].rows[1])) /\ toast' = "Card created"
       ELSE toast' = "Failed to create card" /\ UNCHANGED cards
    /\ Returns(i, IF calls[i].res = "ok" THEN ReturnedEntity(NewCard(calls[i].rows[1]))
                  ELSE ReturnedNull)
    /\ UNCHANGED <<boards, currentBoard, columns, tags, isLoading, session,
                   db, consumer, budget>>

\* ---------------------------------------------------- updateCardPosition
\* MoveCard writing the position only
MoveCardKeepsColumn(cs, cardId, columnId, position) ==
    [k \in DOMAIN cs |->
        IF cs[k].id = cardId THEN [cs[k] EXCEPT !.position = position] ELSE cs[k]]

\* prev.map(card => card.id === cardId ? { ...card, column_id, position } : card)
MoveCard(cs, cardId, columnId, position) ==
    [k \in DOMAIN cs |->
        IF cs[k].id = cardId
        THEN [cs[k] EXCEPT !.column_id = columnId, !.position = position]
        ELSE cs[k]]

\* update cards set column_id, position where id = cardId: no row is no
\* error; a row can be given only a column that exists
dbUpdateCardPosition(i) ==
    /\ Waiting(i, "updateCardPosition", "update")
    /\ IF \E c \in dbCards : c.id = calls[i].id
       THEN IF \E col \in dbColumns : col.id = calls[i].parent
            THEN /\ dbCards' = {IF c.id = calls[i].id
                                THEN [c EXCEPT !.column_id = calls[i].parent,
                                               !.position = calls[i].position]
                                ELSE c : c \in dbCards}
                 /\ Reply(i, "ok", <<>>)
            ELSE Reply(i, "err", <<>>) /\ UNCHANGED dbCards
       ELSE Reply(i, "ok", <<>>) /\ UNCHANGED dbCards
    /\ UNCHANGED <<boards, currentBoard, columns, cards, tags, isLoading,
                   session, toast, dbBoards, dbColumns, dbCardTags, dbNext, consumer, returned, budget>>

\* updateCardPositionResumes with a failure thrown on to handleDragEnd, which
\* then does not reach its setActiveCardId(null)
updateCardPositionResumesThrows(i) ==
    /\ Resumes(i, "updateCardPosition", "update")
    /\ IF calls[i].res = "ok"
       THEN /\ cards' = MoveCard(cards, calls[i].id, calls[i].parent, calls[i].position)
            /\ activeCardId' = NULL
            /\ UNCHANGED toast
       ELSE /\ toast' = "Failed to update card position"
            /\ UNCHANGED <<cards, activeCardId>>
    /\ Returns(i, ReturnedNothing)
    /\ UNCHANGED <<boards, currentBoard, columns, tags, isLoading, dragging, db,
                   consumer, budget>>

\* the continuation of updateCardPosition and, after it, of the handleDragEnd
\* that awaited it: setActiveCardId(null)
updateCardPositionResumes(i) ==
    /\ Resumes(i, "updateCardPosition", "update")
    /\ IF calls[i].res = "ok"
       THEN /\ cards' = MoveCard(cards, calls[i].id, calls[i].parent, calls[i].position)
            /\ UNCHANGED toast
       ELSE toast' = "Failed to update card position" /\ UNCHANGED cards
    /\ activeCardId' = NULL
    /\ Returns(i, ReturnedNothing)
    /\ UNCHANGED <<boards, currentBoard, columns, tags, isLoading, dragging, db, consumer, budget>>

\* ------------------------------------------------------------ updateCard
\* the cards a Column renders: cards.filter(card => card.column_id === column.id)
\* for each column of columns
RenderedCards == {cards[k].id : k \in {j \in DOMAIN cards : HasColumn(columns, cards[j].column_id)}}

\* handleSaveEdit of a rendered Card, for a title that is not blank:
\* updateCard({ id, title, description })
updateCard(cardId, title) ==
    /\ Rendered("Board")
    /\ CanIssue
    /\ cardId \in RenderedCards
    /\ Start([NoCall EXCEPT !.op = "updateCard", !.step = "update",
                                     !.id = cardId, !.title = title])
    /\ UNCHANGED <<boards, currentBoard, columns, cards, tags, isLoading,
                   session, toast, db, consumer, returned>>

\* update cards set title, description where id = card.id
dbUpdateCard(i) ==
    /\ Waiting(i, "updateCard", "update")
    /\ dbCards' = {IF c.id = calls[i].id THEN [c EXCEPT !.title = calls[i].title] ELSE c :
                   c \in dbCards}
    /\ Reply(i, "ok", <<>>)
    /\ UNCHANGED <<boards, currentBoard, columns, cards, tags, isLoading,
                   session, toast, dbBoards, dbColumns, dbCardTags, dbNext, consumer, returned, budget>>

\* prev.map(c => c.id === card.id ? { ...c, ...card } : c)
MergeCard(cs, cardId, title) ==
    [k \in DOMAIN cs |-> IF cs[k].id = cardId THEN [cs[k] EXCEPT !.title = title] ELSE cs[k]]

updateCardResumes(i) ==
    /\ Resumes(i, "updateCard", "update")
    /\ IF calls[i].res = "ok"
       THEN cards' = MergeCard(cards, calls[i].id, calls[i].title) /\ toast' = "Card updated"
       ELSE toast' = "Failed to update card" /\ UNCHANGED cards
    /\ Returns(i, ReturnedNothing)
    /\ UNCHANGED <<boards, currentBoard, columns, tags, isLoading, session, db, consumer, budget>>

\* ------------------------------------------------------------ deleteCard
\* deleteCard removing the card from the store before the request is answered
deleteCardOptimistic(cardId) ==
    /\ Rendered("Board")
    /\ CanIssue
    /\ cardId \in RenderedCards
    /\ Start([NoCall EXCEPT !.op = "deleteCard", !.step = "delete", !.id = cardId])
    /\ cards' = SelectSeq(cards, LAMBDA card : card.id # cardId)
    /\ UNCHANGED <<boards, currentBoard, columns, tags, isLoading,
                   session, toast, db, consumer, returned>>

\* handleDelete of a rendered Card: deleteCard(card.id)
deleteCard(cardId) ==
    /\ Rendered("Board")
    /\ CanIssue
    /\ cardId \in RenderedCards
    /\ Start([NoCall EXCEPT !.op = "deleteCard", !.step = "delete", !.id = cardId])
    /\ UNCHANGED <<boards, currentBoard, columns, cards, tags, isLoading,
                   session, toast, db, consumer, returned>>

\* delete from cards where id = cardId (its card_tags rows go with it)
dbDeleteCard(i) ==
    /\ Waiting(i, "deleteCard", "delete")
    /\ dbCards' = {c \in dbCards : c.id # calls[i].id}
    /\ dbCardTags' = {ct \in dbCardTags : ct[1] # calls[i].id}
    /\ Reply(i, "ok", <<>>)
    /\ UNCHANGED <<boards, currentBoard, columns, cards, tags, isLoading,
                   session, toast, dbBoards, dbColumns, dbNext, consumer, returned, budget>>

\* prev.filter(card => card.id !== cardId)
WithoutCard(cs, cardId) == SelectSeq(cs, LAMBDA card : card.id # cardId)

\* deleteCardResumes removing the card whatever the response
deleteCardResumesAnyway(i) ==
    /\ Resumes(i, "deleteCard", "delete")
    /\ cards' = WithoutCard(cards, calls[i].id)
    /\ toast' = IF calls[i].res = "ok" THEN "Card deleted" ELSE "Failed to delete card"
    /\ Returns(i, ReturnedNothing)
    /\ UNCHANGED <<boards, currentBoard, columns, tags, isLoading, session, db, consumer, budget>>

deleteCardResumes(i) ==
    /\ Resumes(i, "deleteCard", "delete")
    /\ IF calls[i].res = "ok"
       THEN cards' = WithoutCard(cards, calls[i].id) /\ toast' = "Card deleted"
       ELSE toast' = "Failed to delete card" /\ UNCHANGED cards
    /\ Returns(i, ReturnedNothing)
    /\ UNCHANGED <<boards, currentBoard, columns, tags, isLoading, session, db, consumer, budget>>

\* ---------------------------------------------------------- deleteColumn
\* handleDeleteColumn of a rendered Column: deleteColumn(column.id)
deleteColumn(columnId) ==
    /\ Rendered("Board")
    /\ CanIssue
    /\ HasColumn(columns, columnId)
    /\ Start([NoCall EXCEPT !.op = "deleteColumn", !.step = "delete",
                                     !.id = columnId])
    /\ UNCHANGED <<boards, currentBoard, columns, cards, tags, isLoading,
                   session, toast, db, consumer, returned>>

\* the remote rows left when the columns `gone` are deleted: their cards and
\* the cards' card_tags rows are deleted with them
CardsLeft(gone) == {c \in dbCards : c.column_id \notin gone}
CardTagsLeft(gone) == {ct \in dbCardTags : \E c \in CardsLeft(gone) : c.id = ct[1]}

\* delete from columns where id = columnId
dbDeleteColumn(i) ==
    /\ Waiting(i, "deleteColumn", "delete")
    /\ dbColumns' = {c \in dbColumns : c.id # calls[i].id}
    /\ dbCards' = CardsLeft({calls[i].id})
    /\ dbCardTags' = CardTagsLeft({calls[i].id})
    /\ Reply(i, "ok", <<>>)
    /\ UNCHANGED <<boards, currentBoard, columns, cards, tags, isLoading,
                   session, toast, dbBoards, dbNext, consumer, returned, budget>>

\* prev.filter(column => column.id !== columnId)
WithoutColumn(cols, columnId) == SelectSeq(cols, LAMBDA column : column.id # columnId)

\* WithoutCardsOf keeping the cards of the column
WithoutCardsOfKeepsAll(cs, columnId) == cs

\* prev.filter(card => card.column_id !== columnId)
WithoutCardsOf(cs, columnId) == SelectSeq(cs, LAMBDA card : card.column_id # columnId)

deleteColumnResumes(i) ==
    /\ Resumes(i, "deleteColumn", "delete")
    /\ IF calls[i].res = "ok"
       THEN /\ columns' = WithoutColumn(columns, calls[i].id)
            /\ cards' = WithoutCardsOf(cards, calls[i].id)
            /\ toast' = "Column deleted"
       ELSE toast' = "Failed to delete column" /\ UNCHANGED <<columns, cards>>
    /\ Returns(i, ReturnedNothing)
    /\ UNCHANGED <<boards, currentBoard, tags, isLoading, session, db, consumer, budget>>

\* ----------------------------------------------------------- deleteBoard
\* the delete button of a board of BoardList: deleteBoard(board.id).  The
\* function is the one of the render it was taken from, so the currentBoard
\* it reads after the await is that render's.
deleteBoard(boardId) ==
    /\ Rendered("BoardList")
    /\ CanIssue
    /\ boardId \in Range(boards)
    /\ Start([NoCall EXCEPT !.op = "deleteBoard", !.step = "delete",
                                     !.id = boardId, !.closure = <<currentBoard>>])
    /\ UNCHANGED <<boards, currentBoard, columns, cards, tags, isLoading,
                   session, toast, db, consumer, returned>>

\* delete from boards where id = boardId (its columns and their cards go
\* with it)
dbDeleteBoard(i) ==
    /\ Waiting(i, "deleteBoard", "delete")
    /\ LET gone == {c.id : c \in {x \in dbColumns : x.board_id = calls[i].id}}
       IN /\ dbBoards' = dbBoards \ {calls[i].id}
          /\ dbColumns' = {c \in dbColumns : c.board_id # calls[i].id}
          /\ dbCards' = CardsLeft(gone)
          /\ dbCardTags' = CardTagsLeft(gone)
    /\ Reply(i, "ok", <<>>)
    /\ UNCHANGED <<boards, currentBoard, columns, cards, tags, isLoading,
                   session, toast, dbNext, consumer, returned, budget>>

\* prev.filter(board => board.id !== boardId)
WithoutBoard(bs, boardId) == SelectSeq(bs, LAMBDA board : board # boardId)

\* currentBoard?.id === boardId, on the currentBoard of the call's render
IsCurrentBoard(closure, boardId) == closure[1] = boardId

deleteBoardResumes(i) ==
    /\ Resumes(i, "deleteBoard", "delete")
    /\ IF calls[i].res = "ok"
       THEN /\ boards' = WithoutBoard(boards, calls[i].id)
            /\ IF IsCurrentBoard(calls[i].closure, calls[i].id)
               THEN currentBoard' = NULL /\ columns' = <<>> /\ cards' = <<>>
               ELSE UNCHANGED <<currentBoard, columns, cards>>
            /\ toast' = "Board deleted"
       ELSE toast' = "Failed to delete board" /\ UNCHANGED <<boards, currentBoard, columns, cards>>
    /\ Returns(i, ReturnedNothing)
    /\ UNCHANGED <<tags, isLoading, session, db, consumer, budget>>

\* -------------------------------------------------- the drag handlers
\* handleDragStart of Board: a drag starts on a rendered card
handleDragStart(cardId) ==
    /\ Rendered("Board")
    /\ dragging = NULL
    /\ cardId \in RenderedCards
    /\ dragging' = cardId
    /\ activeCardId' = cardId
    /\ UNCHANGED <<boards, currentBoard, columns, cards, tags, isLoading, toast,
                   calls, db, consumer, returned, budget>>

\* What a drag can end over: nothing, or the element with a column's id or
\* a card's id (ids of the two kinds never coincide).
DropTargets == {<<"none", NULL>>} \cup ({"column"} \X ColumnIds) \cup ({"card"} \X CardIds)

\* HighestPosition counting from 1 in an empty column
HighestPositionFromOne(cs, columnId) ==
    LET columnCards == CardsOfColumn(cs, columnId)
    IN IF Len(columnCards) > 0 THEN MaxPositionOf(columnCards) + 1 ELSE 1

\* columnCards.length > 0 ? Math.max(...columnCards.map(c => c.position)) + 1 : 0
HighestPosition(cs, columnId) ==
    LET columnCards == CardsOfColumn(cs, columnId)
    IN IF Len(columnCards) > 0 THEN MaxPositionOf(columnCards) + 1 ELSE 0

\* ReorderPosition counting the indices of newOrder from 1
ReorderPositionFromOne(cs, activeId, overId) ==
    LET columnCards == SortedByPosition(CardsOfColumn(cs, FindCard(cs, activeId).column_id))
        activeIndex == IndexOfCard(columnCards, activeId)
        overIndex == IndexOfCard(columnCards, overId)
    IN IF activeIndex # 0 /\ overIndex # 0
       THEN IndexOfCard(arrayMove(columnCards, activeIndex, overIndex), activeId)
       ELSE -1

\* Same column reordering: the index i (from 0) of the dragged card in
\* arrayMove(columnCards, activeIndex, overIndex), or -1 when an index is -1
ReorderPosition(cs, activeId, overId) ==
    LET columnCards == SortedByPosition(CardsOfColumn(cs, FindCard(cs, activeId).column_id))
        activeIndex == IndexOfCard(columnCards, activeId)
        overIndex == IndexOfCard(columnCards, overId)
    IN IF activeIndex # 0 /\ overIndex # 0
       THEN IndexOfCard(arrayMove(columnCards, activeIndex, overIndex), activeId) - 1
       ELSE -1

NoUpdate == [update |-> FALSE, column_id |-> NULL, position |-> 0, kind |-> ""]
Update(columnId, position, kind) ==
    [update |-> TRUE, column_id |-> columnId, position |-> position, kind |-> kind]

\* the ids of newOrder = arrayMove(columnCards, activeIndex, overIndex)
NewOrder(cs, activeId, overId) ==
    LET columnCards == SortedByPosition(CardsOfColumn(cs, FindCard(cs, activeId).column_id))
        newOrder == arrayMove(columnCards, IndexOfCard(columnCards, activeId),
                              IndexOfCard(columnCards, overId))
    IN [k \in DOMAIN newOrder |-> newOrder[k].id]

\* DragEndUpdate taking any column id for a column of the store
DragEndUpdateAnyColumn(cs, cols, activeId, over) ==
    IF over[1] = "none" \/ ~HasCard(cs, activeId) THEN NoUpdate
    ELSE IF over[1] = "column"
    THEN Update(over[2], HighestPosition(cs, over[2]), "column")
    ELSE NoUpdate

\* DragEndUpdate giving a card dropped on a card of another column the
\* position after that card's
DragEndUpdateAfterCard(cs, cols, activeId, over) ==
    IF over[1] = "none" \/ ~HasCard(cs, activeId) THEN NoUpdate
    ELSE IF over[1] = "column" /\ HasColumn(cols, over[2])
    THEN Update(over[2], HighestPosition(cs, over[2]), "column")
    ELSE IF over[1] = "card" /\ HasCard(cs, over[2])
    THEN LET activeCard == FindCard(cs, activeId)
             overCard == FindCard(cs, over[2])
         IN IF activeCard.column_id = overCard.column_id
            THEN IF ReorderPosition(cs, activeId, over[2]) >= 0
                 THEN Update(activeCard.column_id, ReorderPosition(cs, activeId, over[2]),
                             "reorder")
                 ELSE NoUpdate
            ELSE Update(overCard.column_id, overCard.position + 1, "card")
    ELSE NoUpdate

\* The updateCardPosition call handleDragEnd makes for the dragged card and
\* what it was dropped over, if it makes one.
DragEndUpdate(cs, cols, activeId, over) ==
    IF over[1] = "none" \/ ~HasCard(cs, activeId) THEN NoUpdate
    ELSE IF over[1] = "column" /\ HasColumn(cols, over[2])
    THEN Update(over[2], HighestPosition(cs, over[2]), "column")
    ELSE IF over[1] = "card" /\ HasCard(cs, over[2])
    THEN LET activeCard == FindCard(cs, activeId)
             overCard == FindCard(cs, over[2])
         IN IF activeCard.column_id = overCard.column_id
            THEN IF ReorderPosition(cs, activeId, over[2]) >= 0
                 THEN Update(activeCard.column_id, ReorderPosition(cs, activeId, over[2]),
                             "reorder")
                 ELSE NoUpdate
            ELSE Update(overCard.column_id, overCard.position, "card")
    ELSE NoUpdate

\* handleDragEnd of Board, up to its await (or to its end when it awaits
\* nothing)
handleDragEnd(over) ==
    /\ Rendered("Board")
    /\ dragging # NULL
    /\ dragging' = NULL
    /\ LET u == DragEndUpdate(cards, columns, dragging, over)
       IN IF u.update
          THEN /\ CanIssue
               /\ u.position <= MaxPosition
               /\ Start([NoCall EXCEPT !.op = "updateCardPosition",
                                      !.step = "update", !.id = dragging,
                                      !.parent = u.column_id, !.position = u.position,
                                      !.kind = u.kind,
                                      !.from = FindCard(cards, dragging).column_id,
                                      !.order = IF u.kind = "reorder"
                                                THEN NewOrder(cards, dragging, over[2])
                                                ELSE <<>>,
                                      !.held = Len(CardsOfColumn(cards, u.column_id))])
               /\ UNCHANGED activeCardId
          ELSE activeCardId' = NULL /\ UNCHANGED <<calls, budget>>
    /\ UNCHANGED <<boards, currentBoard, columns, cards, tags, isLoading, toast,
                   db, consumer, returned>>

\* ------------------------------------------------------------- the tags
\* card.tags?.some(tag => tag.id === tagId): "yes", "no", or "throws" when an
\* undefined entry is read before a match
HasTag(cardTags, tagId) ==
    IF \E k \in DOMAIN cardTags : cardTags[k] \in {tagId, NULL}
    THEN LET k == CHOOSE j \in DOMAIN cardTags :
                      /\ cardTags[j] \in {tagId, NULL}
                      /\ \A h \in 1..(j - 1) : cardTags[h] \notin {tagId, NULL}
         IN IF cardTags[k] = tagId THEN "yes" ELSE "throws"
    ELSE "no"

\* handleTagClick of a rendered Card, on a tag the popover lists:
\* addTagToCard or removeTagFromCard.  addTagToCard reads, after its await,
\* the tags of the render the function was taken from.
handleTagClick(k, tagId) ==
    /\ Rendered("Board")
    /\ CanIssue
    /\ k \in DOMAIN cards
    /\ cards[k].id \in RenderedCards
    /\ tagId \in Range(tags)
    /\ HasTag(cards[k].tags, tagId) # "throws"
    /\ Start([NoCall EXCEPT
           !.op = IF HasTag(cards[k].tags, tagId) = "yes"
                  THEN "removeTagFromCard" ELSE "addTagToCard",
           !.step = "tag", !.id = cards[k].id, !.tag = tagId, !.closure = tags])
    /\ UNCHANGED <<boards, currentBoard, columns, cards, tags, isLoading,
                   session, toast, db, consumer, returned>>

\* insert into card_tags (card_id, tag_id): the card must exist.  Whether the
\* table refuses a pair it already holds is not part of the program: the
\* insert of such a pair can succeed here, and can be rejected as any request.
dbInsertCardTag(i) ==
    /\ Waiting(i, "addTagToCard", "tag")
    /\ IF \E c \in dbCards : c.id = calls[i].id
       THEN dbCardTags' = dbCardTags \cup {<<calls[i].id, calls[i].tag>>} /\ Reply(i, "ok", <<>>)
       ELSE Reply(i, "err", <<>>) /\ UNCHANGED dbCardTags
    /\ UNCHANGED <<boards, currentBoard, columns, cards, tags, isLoading,
                   session, toast, dbBoards, dbColumns, dbCards, dbNext, consumer, returned, budget>>

\* tags.find(t => t.id === tagId): the tag, or undefined
FindTag(ts, tagId) == IF tagId \in Range(ts) THEN tagId ELSE NULL

\* prev.map(card => card.id === cardId
\*     ? { ...card, tags: [...(card.tags || []), tag] } : card)
WithTag(cs, cardId, tag) ==
    [k \in DOMAIN cs |->
        IF cs[k].id = cardId THEN [cs[k] EXCEPT !.tags = Append(@, tag)] ELSE cs[k]]

addTagToCardResumes(i) ==
    /\ Resumes(i, "addTagToCard", "tag")
    /\ IF calls[i].res = "ok"
       THEN /\ cards' = WithTag(cards, calls[i].id, FindTag(calls[i].closure, calls[i].tag))
            /\ toast' = "Tag added"
       ELSE toast' = "Failed to add tag" /\ UNCHANGED cards
    /\ Returns(i, ReturnedNothing)
    /\ UNCHANGED <<boards, currentBoard, columns, tags, isLoading, session, db, consumer, budget>>

\* delete from card_tags where card_id = cardId and tag_id = tagId
dbDeleteCardTag(i) ==
    /\ Waiting(i, "removeTagFromCard", "tag")
    /\ dbCardTags' = dbCardTags \ {<<calls[i].id, calls[i].tag>>}
    /\ Reply(i, "ok", <<>>)
    /\ UNCHANGED <<boards, currentBoard, columns, cards, tags, isLoading,
                   session, toast, dbBoards, dbColumns, dbCards, dbNext, consumer, returned, budget>>

\* WithoutTag leaving the tags of the card as they are
WithoutTagKeeps(cs, cardId, tagId) == cs

\* prev.map(card => card.id === cardId
\*     ? { ...card, tags: (card.tags || []).filter(tag => tag.id !== tagId) } : card)
WithoutTag(cs, cardId, tagId) ==
    [k \in DOMAIN cs |->
        IF cs[k].id = cardId
        THEN [cs[k] EXCEPT !.tags = SelectSeq(@, LAMBDA tag : tag # tagId)]
        ELSE cs[k]]

removeTagFromCardResumes(i) ==
    /\ Resumes(i, "removeTagFromCard", "tag")
    /\ IF calls[i].res = "ok"
       THEN cards' = WithoutTag(cards, calls[i].id, calls[i].tag) /\ toast' = "Tag removed"
       ELSE toast' = "Failed to remove tag" /\ UNCHANGED cards
    /\ Returns(i, ReturnedNothing)
    /\ UNCHANGED <<boards, currentBoard, columns, tags, isLoading, session, db, consumer, budget>>

\* ------------------------------------------------------- initial states
\* What the remote store can hold when the page is opened.  SeedTwo is the
\* board of the move example (To Do: A@0, B@1; Done: empty), SeedThree
\* the one of the reorder example (A@0, B@1, C@2), SeedSplit has a card in
\* each column, SeedBare a board with one empty column, SeedBoard a board
\* without columns, SeedTagged a column of two cards, the first with a tag,
\* SeedTwoBoards two boards with a column of one card each.
NoRows == [boards |-> {}, columns |-> {}, cards |-> {}, cardTags |-> {},
           next |-> [board |-> 0, column |-> 0, card |-> 0]]

Row(id, columnId, position) ==
    [id |-> id, column_id |-> columnId, position |-> position, title |-> "t1"]

TwoColumns == {[id |-> 1, board_id |-> 1, position |-> 0],
               [id |-> 2, board_id |-> 1, position |-> 1]}

SeedBare == [NoRows EXCEPT !.boards = {1},
                           !.columns = {[id |-> 1, board_id |-> 1, position |-> 0]},
                           !.next = [board |-> 1, column |-> 1, card |-> 0]]

SeedBoard == [NoRows EXCEPT !.boards = {1},
                            !.next = [board |-> 1, column |-> 0, card |-> 0]]

SeedTagged == [NoRows EXCEPT !.boards = {1},
                             !.columns = {[id |-> 1, board_id |-> 1, position |-> 0]},
                             !.cards = {Row(1, 1, 0), Row(2, 1, 1)},
                             !.cardTags = {<<1, 1>>},
                             !.next = [board |-> 1, column |-> 1, card |-> 2]]

SeedSecondBoard == [NoRows EXCEPT !.boards = {1, 2},
                                  !.columns = {[id |-> 1, board_id |-> 1, position |-> 0]},
                                  !.next = [board |-> 2, column |-> 1, card |-> 0]]

SeedTwo == [NoRows EXCEPT !.boards = {1}, !.columns = TwoColumns,
                          !.cards = {Row(1, 1, 0), Row(2, 1, 1)},
                          !.next = [board |-> 1, column |-> 2, card |-> 2]]

SeedThree == [NoRows EXCEPT !.boards = {1}, !.columns = TwoColumns,
                            !.cards = {Row(1, 1, 0), Row(2, 1, 1), Row(3, 1, 2)},
                            !.next = [board |-> 1, column |-> 2, card |-> 3]]

SeedSplit == [NoRows EXCEPT !.boards = {1}, !.columns = TwoColumns,
                            !.cards = {Row(1, 1, 0), Row(2, 2, 0)},
                            !.next = [board |-> 1, column |-> 2, card |-> 2]]

SeedTwoBoards == [NoRows EXCEPT !.boards = {1, 2},
                                !.columns = {[id |-> 1, board_id |-> 1, position |-> 0],
                                             [id |-> 2, board_id |-> 2, position |-> 0]},
                                !.cards = {Row(1, 1, 0), Row(2, 2, 0)},
                                !.next = [board |-> 2, column |-> 2, card |-> 2]]

InitDb(seed) ==
    /\ dbBoards = seed.boards
    /\ dbColumns = seed.columns
    /\ dbCards = seed.cards
    /\ dbCardTags = seed.cardTags
    /\ dbNext = seed.next

\* BoardProvider is mounted: the useState initial values, and the effect
\* has called fetchBoards() and fetchTags().
Mounted(seed, who, ops) ==
    /\ InitDb(seed)
    /\ boards = <<>>
    /\ currentBoard = NULL
    /\ columns = <<>>
    /\ cards = <<>>
    /\ tags = <<>>
    /\ isLoading = TRUE
    /\ activeCardId = NULL
    /\ dragging = NULL
    /\ toast = ""
    /\ calls = <<[NoCall EXCEPT !.op = "fetchBoards", !.step = "boards"],
                 [NoCall EXCEPT !.op = "fetchTags", !.step = "tags"]>>
    /\ budget = ops
    /\ consumer = who
    /\ returned = NoReturn

\* The state once fetchBoards, fetchTags and the fetchBoardData of board 1
\* have all succeeded and nothing else has been done.
Opened(seed, who, ops) ==
    /\ InitDb(seed)
    /\ boards = NewestFirst(seed.boards)
    /\ currentBoard = 1
    /\ columns = OrderByPosition({c \in seed.columns : c.board_id = 1})
    /\ cards = LET rows == OrderByPosition(seed.cards)
               IN [k \in DOMAIN rows |->
                      [id |-> rows[k].id, column_id |-> rows[k].column_id,
                       position |-> rows[k].position, title |-> rows[k].title,
                       tags |-> ByName({t \in TagIds : <<rows[k].id, t>> \in seed.cardTags})]]
    /\ tags = ByName(TagIds)
    /\ isLoading = FALSE
    /\ activeCardId = NULL
    /\ dragging = NULL
    /\ toast = ""
    /\ calls = <<>>
    /\ budget = ops
    /\ consumer = who
    /\ returned = NoReturn

\* ----------------------------------------------------- the next-state steps
FetchSteps ==
    \E i \in 1..MaxCalls :
        \/ dbSelectBoards(i) \/ fetchBoardsResumes(i)
        \/ dbSelectTags(i) \/ fetchTagsResumes(i)

BoardDataSteps ==
    \/ \E b \in BoardIds : fetchBoardData(b)
    \/ \E i \in 1..MaxCalls :
        \/ dbSelectBoard(i) \/ fetchBoardDataBoard(i)
        \/ dbSelectColumns(i) \/ fetchBoardDataColumns(i)
        \/ dbSelectCards(i) \/ fetchBoardDataCards(i)

BoardDataTagSteps == \E i \in 1..MaxCalls : dbSelectTagsOfCards(i) \/ fetchBoardDataTags(i)

CreateBoardSteps ==
    \/ createBoard
    \/ \E i \in 1..MaxCalls : dbInsertBoard(i) \/ createBoardResumes(i)

CreateColumnSteps ==
    \/ createColumn
    \/ \E i \in 1..MaxCalls :
        \/ dbSelectTopColumn(i) \/ createColumnPosition(i)
        \/ dbInsertColumn(i) \/ createColumnResumes(i)

CreateCardSteps(titles) ==
    \/ \E t \in titles, c \in ColumnIds : createCard(t, c)
    \/ \E i \in 1..MaxCalls :
        \/ dbSelectTopCard(i) \/ createCardPosition(i)
        \/ dbInsertCard(i) \/ createCardResumes(i)

DragSteps ==
    \/ \E c \in CardIds : handleDragStart(c)
    \/ \E over \in DropTargets : handleDragEnd(over)
    \/ \E i \in 1..MaxCalls : dbUpdateCardPosition(i) \/ updateCardPositionResumes(i)

UpdateCardSteps ==
    \/ \E c \in CardIds, t \in Titles : updateCard(c, t)
    \/ \E i \in 1..MaxCalls : dbUpdateCard(i) \/ updateCardResumes(i)

DeleteCardSteps ==
    \/ \E c \in CardIds : deleteCard(c)
    \/ \E i \in 1..MaxCalls : dbDeleteCard(i) \/ deleteCardResumes(i)

DeleteColumnSteps ==
    \/ \E c \in ColumnIds : deleteColumn(c)
    \/ \E i \in 1..MaxCalls : dbDeleteColumn(i) \/ deleteColumnResumes(i)

DeleteBoardSteps ==
    \/ \E b \in BoardIds : deleteBoard(b)
    \/ \E i \in 1..MaxCalls : dbDeleteBoard(i) \/ deleteBoardResumes(i)

TagSteps ==
    \/ \E k \in 1..(2 * NumCards), t \in TagIds : handleTagClick(k, t)
    \/ \E i \in 1..MaxCalls :
        \/ dbInsertCardTag(i) \/ addTagToCardResumes(i)
        \/ dbDeleteCardTag(i) \/ removeTagFromCardResumes(i)

Rejects == \E i \in 1..MaxCalls : gatewayRejects(i)

\* The whole program: opened on any of the remote stores above.
Init == \E seed \in {NoRows, SeedBare, SeedTwo, SeedThree, SeedSplit} :
            Mounted(seed, "components", MaxOps)

Next ==
    \/ FetchSteps \/ BoardDataSteps \/ BoardDataTagSteps \/ setCurrentBoardNull
    \/ CreateBoardSteps \/ CreateColumnSteps \/ CreateCardSteps(Titles)
    \/ DragSteps \/ UpdateCardSteps \/ DeleteCardSteps \/ DeleteColumnSteps
    \/ DeleteBoardSteps \/ TagSteps \/ Rejects

Spec == Init /\ [][Next]_vars

\* Drag and drop, card creation and deletion, column deletion on an opened
\* board.
InitDrag == \E seed \in {SeedTwo, SeedThree, SeedSplit} : Opened(seed, "components", DragOps)

NextDrag ==
    \/ DragSteps \/ CreateCardSteps({"t1"}) \/ DeleteCardSteps \/ DeleteColumnSteps
    \/ Rejects

SpecDrag == InitDrag /\ [][NextDrag]_vars

\* Creation of columns and cards on an opened board, every request
\* succeeding.
InitCreate == \E seed \in {SeedBoard, SeedBare} : Opened(seed, "components", CreateOps)

NextCreate == CreateColumnSteps \/ CreateCardSteps({"t1"})

SpecCreate == InitCreate /\ [][NextCreate]_vars

\* The list of boards: opening a board, leaving it, deleting a board, from
\* the moment the page is opened, with the shipped components.
InitBoards == Mounted(SeedTwo, "components", BoardOps)

NextBoards ==
    \/ FetchSteps \/ BoardDataSteps \/ setCurrentBoardNull \/ DeleteBoardSteps \/ Rejects

SpecBoards == InitBoards /\ [][NextBoards]_vars

\* Every mutating operation of the context on an opened board, made by any
\* consumer.
InitMutations == Opened(SeedTagged, "any", MutationOps)

NextMutations ==
    \/ CreateBoardSteps \/ CreateColumnSteps \/ CreateCardSteps({"t1"})
    \/ DragSteps \/ UpdateCardSteps \/ DeleteCardSteps \/ DeleteColumnSteps
    \/ DeleteBoardSteps \/ TagSteps \/ Rejects

SpecMutations == InitMutations /\ [][NextMutations]_vars

\* The tags of the cards of an opened board, with the board left and opened
\* again, by the shipped components.
InitTags == Opened(SeedTagged, "components", TagOps)

NextTags ==
    \/ TagSteps \/ setCurrentBoardNull \/ BoardDataSteps \/ BoardDataTagSteps \/ Rejects

SpecTags == InitTags /\ [][NextTags]_vars

\* The bulk fetches, called by any consumer of the context from the moment
\* the provider is mounted.
InitLoading == Mounted(SeedTwoBoards, "any", LoadOps)

NextLoading == FetchSteps \/ BoardDataSteps \/ setCurrentBoardNull \/ Rejects

SpecLoading == InitLoading /\ [][NextLoading]_vars

\* Creation of columns and cards on an opened board by any consumer of the
\* context, with any title and any column id.
InitValidate == Opened(SeedBare, "any", ValidateOps)

NextValidate == CreateColumnSteps \/ CreateCardSteps({"", "t1"}) \/ Rejects

SpecValidate == InitValidate /\ [][NextValidate]_vars

\* Everything that writes a position: creation of columns and cards and
\* drag and drop, on an opened board, with the shipped components.
InitPositions == \E seed \in {SeedBare, SeedThree, SeedSplit} :
                     Opened(seed, "components", PositionOps)

NextPositions == CreateColumnSteps \/ CreateCardSteps({"t1"}) \/ DragSteps \/ Rejects

SpecPositions == InitPositions /\ [][NextPositions]_vars

\* Creation of columns and cards with the board left by the back button and
\* a board opened from the list while a creation is outstanding, with the
\* shipped components.
InitReload == \E seed \in {SeedBare, SeedSecondBoard} : Opened(seed, "components", ReloadOps)

NextReload ==
    \/ CreateColumnSteps \/ CreateCardSteps({"t1"}) \/ setCurrentBoardNull
    \/ BoardDataSteps \/ Rejects

SpecReload == InitReload /\ [][NextReload]_vars

\* ================================================================ claims
\* the entries of the card array cs that carry the id cardId
EntriesOf(cs, cardId) == {k \in DOMAIN cs : cs[k].id = cardId}

\* the ids of an array of entities, in its order
IdsOf(s) == [k \in DOMAIN s |-> s[k].id]

\* call i is an updateCardPosition whose response is a success and this step
\* is its continuation
MoveCompletes(i) ==
    /\ Resumes(i, "updateCardPosition", "update")
    /\ calls[i].res = "ok"
    /\ updateCardPositionResumes(i)

\* call i moves its card to another column than the one handleDragEnd found
\* it in
CrossColumn(i) == calls[i].kind \in {"column", "card"} /\ calls[i].parent # calls[i].from

\* C1: once every operation issued has completed, no two cards of the store
\* that have the same column_id have the same position.
C1_DistinctPositions ==
    (calls = <<>> /\ dragging = NULL) =>
        \A j, k \in DOMAIN cards :
            (j # k /\ cards[j].column_id = cards[k].column_id)
                => cards[j].position # cards[k].position

\* C2: when a same-column reorder completes with success, the cards of the
\* column sorted by position are in the requested new order and their
\* positions are exactly 0, 1, ..., N-1.
C2_ReorderRenumbers ==
    [][\A i \in DOMAIN calls :
          (MoveCompletes(i) /\ calls[i].kind = "reorder") =>
              LET after == SortedByPosition(CardsOfColumn(cards', calls[i].parent))
              IN /\ IdsOf(after) = calls[i].order
                 /\ \A k \in DOMAIN after : after[k].position = k - 1]_vars

\* C3 as stated: when a cross-column move completes with success, the moved
\* card's column_id is the destination, it is not among the cards of the
\* source column, and it appears exactly once in the store.
C3_MovedOnceToDestination ==
    [][\A i \in DOMAIN calls :
          (MoveCompletes(i) /\ CrossColumn(i)) =>
              /\ Cardinality(EntriesOf(cards', calls[i].id)) = 1
              /\ \A k \in EntriesOf(cards', calls[i].id) :
                     cards'[k].column_id = calls[i].parent]_vars

\* C3 as amended: when a cross-column move completes with success, every
\* entry of the store with the moved card's id has the destination as its
\* column_id and none has the source; the step adds and removes no entry, so
\* a card that was in the store once is in it once.
C3_MovedToDestination ==
    [][\A i \in DOMAIN calls :
          (MoveCompletes(i) /\ CrossColumn(i)) =>
              /\ \A k \in EntriesOf(cards', calls[i].id) :
                     /\ cards'[k].column_id = calls[i].parent
                     /\ cards'[k].column_id # calls[i].from
              /\ EntriesOf(cards', calls[i].id) = EntriesOf(cards, calls[i].id)
              /\ IdsOf(cards') = IdsOf(cards)]_vars

\* C3: card 1, which every initial board of SpecDrag has in column 1, is in
\* column 2, once, after its move has completed.
C3_Witness ==
    /\ calls = <<>>
    /\ Cardinality(EntriesOf(cards, 1)) = 1
    /\ FindCard(cards, 1).column_id = 2

\* call i drops its card on another column, which held no card at the drop
IntoEmptyColumn(i) ==
    /\ calls[i].kind = "column"
    /\ calls[i].parent # calls[i].from
    /\ calls[i].held = 0

\* C4 as stated: when a move into an empty column completes with success,
\* the moved card has position 0 and the cards left in the source column are
\* numbered 0, 1, ... in their previous order.
C4_SourceRenumbered ==
    [][\A i \in DOMAIN calls :
          (MoveCompletes(i) /\ IntoEmptyColumn(i)) =>
              LET left == SortedByPosition(CardsOfColumn(cards', calls[i].from))
              IN /\ \A k \in EntriesOf(cards', calls[i].id) : cards'[k].position = 0
                 /\ \A k \in DOMAIN left : left[k].position = k - 1]_vars

\* C4 as amended: when a move into an empty column completes with success,
\* the moved card has position 0 in the destination, and every other card,
\* those left in the source column among them, keeps its column and its
\* position (source [A@0, B@1], destination empty: moving A gives source
\* [B@1], destination [A@0]).
C4_SourceKept ==
    [][\A i \in DOMAIN calls :
          (MoveCompletes(i) /\ IntoEmptyColumn(i)) =>
              /\ \A k \in EntriesOf(cards', calls[i].id) :
                     cards'[k].position = 0 /\ cards'[k].column_id = calls[i].parent
              /\ \A k \in DOMAIN cards :
                     cards[k].id # calls[i].id => cards'[k] = cards[k]]_vars

\* C4: the example's outcome: card 1 alone in column 2 at position 0, card 2
\* left in column 1 at position 1.
C4_Witness ==
    /\ calls = <<>>
    /\ IdsOf(CardsOfColumn(cards, 2)) = <<1>>
    /\ FindCard(cards, 1).position = 0
    /\ HasCard(cards, 2)
    /\ FindCard(cards, 2).column_id = 1
    /\ FindCard(cards, 2).position = 1

\* C6: when a deleteColumn(c) completes with success, the store holds no
\* column with id c and no card whose column_id is c, and the other columns
\* and cards are what they were, in the order they were in.
C6_ColumnAndItsCardsGone ==
    [][\A i \in DOMAIN calls :
          (/\ Resumes(i, "deleteColumn", "delete")
           /\ calls[i].res = "ok"
           /\ deleteColumnResumes(i)) =>
              /\ ~HasColumn(columns', calls[i].id)
              /\ \A k \in DOMAIN cards' : cards'[k].column_id # calls[i].id
              /\ \A k \in DOMAIN columns :
                     columns[k].id # calls[i].id =>
                         \E h \in DOMAIN columns' :
                             /\ columns'[h] = columns[k]
                             /\ h = k - Cardinality({j \in 1..k : columns[j].id = calls[i].id})
              /\ \A k \in DOMAIN cards :
                     cards[k].column_id # calls[i].id =>
                         \E h \in DOMAIN cards' :
                             /\ cards'[h] = cards[k]
                             /\ h = k - Cardinality({j \in 1..k :
                                                       cards[j].column_id = calls[i].id})
              /\ Len(columns') <= Len(columns)
              /\ Len(cards') <= Len(cards)]_vars

\* C6: column 1, which held cards, has been deleted: it and its cards are
\* gone and column 2 is still there.
C6_Witness ==
    /\ toast = "Column deleted"
    /\ ~HasColumn(columns, 1)
    /\ HasColumn(columns, 2)
    /\ \A k \in DOMAIN cards : cards[k].column_id # 1

\* the array s by ascending id (the order in which the remote store created
\* its entities)
RECURSIVE InCreationOrder(_)
InCreationOrder(s) ==
    IF s = <<>> THEN <<>>
    ELSE LET i == CHOOSE k \in DOMAIN s : \A j \in DOMAIN s : s[k].id <= s[j].id
         IN <<s[i]>> \o InCreationOrder([j \in 1..(Len(s) - 1) |->
                                            IF j < i THEN s[j] ELSE s[j + 1]])

\* C5: once the creates issued have completed, all with success, the cards
\* of each column (and the columns of the board), taken in creation order,
\* have positions 0, 1, 2, ...
C5_PositionsCountUp ==
    calls = <<>> =>
        /\ \A c \in ColumnIds :
               LET made == InCreationOrder(CardsOfColumn(cards, c))
               IN \A k \in DOMAIN made : made[k].position = k - 1
        /\ LET made == InCreationOrder(columns)
           IN \A k \in DOMAIN made : made[k].position = k - 1

\* call i is a deleteBoard whose response is a success and this step is its
\* continuation
DeleteBoardCompletes(i) ==
    /\ Resumes(i, "deleteBoard", "delete")
    /\ calls[i].res = "ok"
    /\ deleteBoardResumes(i)

\* C7: when a deleteBoard(b) completes with success, the store holds no
\* column whose board_id is b and no card of such a column.
C7_BoardColumnsGone ==
    [][\A i \in DOMAIN calls :
          DeleteBoardCompletes(i) =>
              /\ \A k \in DOMAIN columns' : columns'[k].board_id # calls[i].id
              /\ \A k \in DOMAIN cards' :
                     ~\E h \in DOMAIN columns :
                          /\ columns[h].board_id = calls[i].id
                          /\ columns[h].id = cards'[k].column_id]_vars

\* C8: when a deleteBoard(b) completes with success while b is the selected
\* board, then currentBoard is null, columns and cards are empty and b is
\* not in boards.
C8_CurrentBoardCleared ==
    [][\A i \in DOMAIN calls :
          (DeleteBoardCompletes(i) /\ currentBoard = calls[i].id) =>
              /\ currentBoard' = NULL
              /\ columns' = <<>>
              /\ cards' = <<>>
              /\ calls[i].id \notin Range(boards')]_vars

MutatingOps == {"createBoard", "createColumn", "createCard", "updateCardPosition",
                "updateCard", "deleteCard", "deleteColumn", "deleteBoard",
                "addTagToCard", "removeTagFromCard"}

\* call i is a mutating operation whose mutating request was rejected, and
\* this step is the one in which it returns
FailedCallReturns(i) ==
    /\ calls[i].op \in MutatingOps
    /\ calls[i].pc = "replied"
    /\ calls[i].res = "err"
    /\ calls[i].step # "read"
    /\ calls' = Returned(i)

\* C9: when a mutating operation whose gateway call failed returns, boards,
\* currentBoard, columns, cards and tags are what they were before that step,
\* and, when no other call was in flight with it, what they were when the
\* operation was called.
C9_FailureLeavesStore ==
    [][\A i \in DOMAIN calls :
          FailedCallReturns(i) =>
              /\ UNCHANGED store
              /\ calls[i].before # <<>> => store' = calls[i].before[1]]_vars

\* C9: a deleteColumn has failed and returned on the opened board, which
\* still has its column and both cards.
C9_Witness ==
    /\ toast = "Failed to delete column"
    /\ calls = <<>>
    /\ HasColumn(columns, 1)
    /\ Len(cards) = 2

\* the store already shows what the call c asks for
Reflected(c) ==
    CASE c.op = "createBoard" -> \E k \in DOMAIN boards : boards[k] \notin dbBoards
      [] c.op = "createColumn" ->
            \E k \in DOMAIN columns :
                /\ columns[k].board_id = c.parent
                /\ \A r \in dbColumns : r.id # columns[k].id
      [] c.op = "createCard" ->
            \E k \in DOMAIN cards :
                /\ cards[k].column_id = c.parent
                /\ \A r \in dbCards : r.id # cards[k].id
      [] c.op = "updateCardPosition" ->
            \A k \in EntriesOf(cards, c.id) :
                cards[k].column_id = c.parent /\ cards[k].position = c.position
      [] c.op = "updateCard" -> \A k \in EntriesOf(cards, c.id) : cards[k].title = c.title
      [] c.op = "deleteCard" -> ~HasCard(cards, c.id)
      [] c.op = "deleteColumn" ->
            ~HasColumn(columns, c.id) /\ \A k \in DOMAIN cards : cards[k].column_id # c.id
      [] c.op = "deleteBoard" -> c.id \notin Range(boards)
      [] c.op = "addTagToCard" ->
            \A k \in EntriesOf(cards, c.id) : c.tag \in Range(cards[k].tags)
      [] c.op = "removeTagFromCard" ->
            \A k \in EntriesOf(cards, c.id) : c.tag \notin Range(cards[k].tags)
      [] OTHER -> TRUE

UpdateCompletes(i) ==
    /\ i \in DOMAIN calls
    /\ calls[i].op \in CardUpdates
    /\ calls[i].pc = "replied"
    /\ calls[i].res = "ok"
    /\ calls' = Returned(i)

\* the card entry carries the values the update u asked for
Carries(card, u) ==
    IF u.op = "updateCardPosition"
    THEN card.column_id = u.parent /\ card.position = u.position
    ELSE card.title = u.title

\* C11: when the earlier-issued of two successful updates of one card
\* completes after the later-issued one, the card in the store still
\* carries the values of the later-issued update.
C11_LaterUpdateWins ==
    [][\A i \in DOMAIN calls :
          (UpdateCompletes(i) /\ calls[i].outrun # <<>>) =>
              \A k \in EntriesOf(cards', calls[i].id) :
                  Carries(cards'[k], calls[i].outrun[1])]_vars

\* C12: every card of the store has the column_id of a column of the store.
C12_CardsHaveColumns ==
    \A k \in DOMAIN cards : HasColumn(columns, cards[k].column_id)

\* C13: no card's tag list holds the same tag id twice, nor an entry that
\* is not a tag.
C13_NoDuplicateTags ==
    \A k \in DOMAIN cards :
        /\ \A a, b \in DOMAIN cards[k].tags :
               cards[k].tags[a] = cards[k].tags[b] => a = b
        /\ Range(cards[k].tags) \subseteq TagIds

\* call i is a tag operation `op` whose response is a success, and this step
\* is its continuation
TagCallCompletes(i, op) ==
    /\ i \in DOMAIN calls
    /\ calls[i].op = op
    /\ calls[i].pc = "replied"
    /\ calls[i].res = "ok"
    /\ calls' = Returned(i)

\* the tag list s without the tag t
Detached(s, t) == SelectSeq(s, LAMBDA tag : tag # t)

\* C14: a successful addTagToCard(c, t) on a card without t puts t, a tag
\* of the tag collection, at the end of c's tags, so that taking t out
\* gives the tags c had before; a successful removeTagFromCard(c, t) takes
\* exactly t out of c's tags; both leave every other card, the cards' order
\* and the tag collection as they are.  Hence the add followed by the
\* remove leaves c's tags as before the add, with t still in tags.
C14_AddThenRemoveRestores ==
    [][\A i \in DOMAIN calls :
          /\ TagCallCompletes(i, "addTagToCard") =>
                /\ tags' = tags
                /\ calls[i].tag \in Range(tags')
                /\ DOMAIN cards' = DOMAIN cards
                /\ \A k \in DOMAIN cards :
                       IF cards[k].id = calls[i].id
                       THEN calls[i].tag \notin Range(cards[k].tags) =>
                                /\ cards'[k].tags = Append(cards[k].tags, calls[i].tag)
                                /\ Detached(cards'[k].tags, calls[i].tag) = cards[k].tags
                                /\ [cards'[k] EXCEPT !.tags = <<>>] =
                                       [cards[k] EXCEPT !.tags = <<>>]
                       ELSE cards'[k] = cards[k]
          /\ TagCallCompletes(i, "removeTagFromCard") =>
                /\ tags' = tags
                /\ calls[i].tag \in Range(tags')
                /\ DOMAIN cards' = DOMAIN cards
                /\ \A k \in DOMAIN cards :
                       IF cards[k].id = calls[i].id
                       THEN /\ cards'[k].tags = Detached(cards[k].tags, calls[i].tag)
                            /\ [cards'[k] EXCEPT !.tags = <<>>] =
                                   [cards[k] EXCEPT !.tags = <<>>]
                       ELSE cards'[k] = cards[k]]_vars

\* C14: the tag has been added to card 2, which had none, and removed
\* again; card 1 still has its tag.
C14_Witness ==
    /\ calls = <<>>
    /\ toast = "Tag removed"
    /\ tags = <<1>>
    /\ \E k \in DOMAIN cards : cards[k].id = 2 /\ cards[k].tags = <<>>
    /\ \E k \in DOMAIN cards : cards[k].id = 1 /\ cards[k].tags = <<1>>
    /\ dbCardTags = {<<1, 1>>}

\* a fetchBoards or a fetchBoardData is in flight
BulkFetchOutstanding ==
    \E i \in DOMAIN calls : calls[i].op \in {"fetchBoards", "fetchBoardData"}

\* C15: isLoading is true exactly when a bulk fetch is outstanding.
C15_LoadingWhileFetching == isLoading = BulkFetchOutstanding

Creates == {"createBoard", "createColumn", "createCard"}

\* the array of the store a create adds to
StoreOf(op, bs, cols, cs) ==
    CASE op = "createBoard" -> bs
      [] op = "createColumn" -> cols
      [] OTHER -> cs

\* C16: a mutating operation whose gateway call was rejected returns to its
\* caller: null from createBoard, createColumn and createCard, nothing from
\* the update, delete and tag operations; and a create that returns an
\* entity returns the entry it has just added to the store.
C16_FailureReturnsNull ==
    [][\A i \in DOMAIN calls :
          /\ FailedCallReturns(i) =>
                /\ returned'.op = calls[i].op
                /\ returned'.kind = IF calls[i].op \in Creates THEN "null" ELSE "undefined"
          /\ (calls[i].op \in Creates /\ calls' = Returned(i)) =>
                /\ returned'.op = calls[i].op
                /\ returned'.kind \in {"entity", "null"}
                /\ returned'.kind = "entity" =>
                      LET before == StoreOf(calls[i].op, boards, columns, cards)
                          after == StoreOf(calls[i].op, boards', columns', cards')
                      IN /\ Len(after) = Len(before) + 1
                         /\ \E k \in DOMAIN after :
                                /\ after[k] = returned'.entity[1]
                                /\ \A j \in DOMAIN before : before[j] # after[k]]_vars

\* C16: a createCard whose insert was rejected has returned null.
C16_Witness ==
    /\ returned = [op |-> "createCard", kind |-> "null", entity |-> <<>>]
    /\ toast = "Failed to create card"

\* this step calls the context function op
Calls(op) ==
    /\ Len(calls') = Len(calls) + 1
    /\ calls'[Len(calls')].op = op

\* C17: createCard is called (and so sends its first request) only with a
\* title that is not empty and the id of a column of the store, and
\* createColumn only with the id of a board of the store.
C17_CreateValidated ==
    [][/\ Calls("createCard") =>
             /\ calls'[Len(calls')].title # ""
             /\ HasColumn(columns, calls'[Len(calls')].parent)
       /\ Calls("createColumn") => calls'[Len(calls')].parent \in Range(boards)]_vars

\* this step is a continuation of the fetchBoardData call i
FetchBoardDataStep(i) ==
    /\ i \in DOMAIN calls
    /\ calls[i].op = "fetchBoardData"
    /\ calls[i].pc = "replied"
    /\ \/ calls' = Returned(i)
       \/ Len(calls') = Len(calls) /\ calls'[i].step # calls[i].step

\* the place of a step of fetchBoardData in the function
StageOf(step) ==
    CASE step = "board" -> 1 [] step = "columns" -> 2 [] OTHER -> 3

\* C18: a continuation of a fetchBoardData during which the board view was
\* left changes none of currentBoard, columns and cards; and a continuation
\* of a fetchBoardData does not store what a later-issued fetchBoardData of
\* another board, further on in its steps, has already stored.
C18_StaleFetchIgnored ==
    [][\A i \in DOMAIN calls :
          /\ (FetchBoardDataStep(i) /\ calls[i].left) =>
                UNCHANGED <<currentBoard, columns, cards>>
          /\ (/\ FetchBoardDataStep(i)
              /\ \E j \in DOMAIN calls :
                     /\ j > i
                     /\ calls[j].op = "fetchBoardData"
                     /\ calls[j].id # calls[i].id
                     /\ StageOf(calls[j].step) > StageOf(calls[i].step)) =>
                UNCHANGED <<currentBoard, columns, cards>>]_vars

\* C19: no position is negative: not in the store, not in a request under
\* way, not in the remote tables.
C19_PositionsNonNegative ==
    /\ \A k \in DOMAIN cards : cards[k].position >= 0
    /\ \A k \in DOMAIN columns : columns[k].position >= 0
    /\ \A i \in DOMAIN calls : calls[i].position >= 0
    /\ \A r \in dbCards \cup dbColumns : r.position >= 0

\* C19: card 1 has been dropped on the column of card 2 and carries the
\* position written by the drop, after card 2.
C19_Witness ==
    /\ calls = <<>>
    /\ \E k \in DOMAIN cards :
           cards[k].id = 1 /\ cards[k].column_id = 2 /\ cards[k].position = 1
    /\ \E k \in DOMAIN cards :
           cards[k].id = 2 /\ cards[k].column_id = 2 /\ cards[k].position = 0

\* no drag is in progress and no handleDragEnd awaits its updateCardPosition
Idle ==
    /\ dragging = NULL
    /\ \A i \in DOMAIN calls : calls[i].op # "updateCardPosition"

\* C20: a handleDragEnd that calls nothing leaves activeCardId null; when
\* the updateCardPosition it awaited returns, after a success or a failure,
\* activeCardId is null; and whenever no drag is in progress and none is
\* awaiting the gateway, activeCardId is null.
C20_DragReturnsToIdle ==
    /\ [](Idle => activeCardId = NULL)
    /\ [][/\ (dragging # NULL /\ dragging' = NULL /\ calls' = calls) => activeCardId' = NULL
          /\ \A i \in DOMAIN calls :
                (calls[i].op = "updateCardPosition" /\ calls' = Returned(i)) =>
                    activeCardId' = NULL]_vars

\* C20: a drop whose update the gateway rejected has been handled, and the
\* board is idle again.
C20_Witness ==
    /\ toast = "Failed to update card position"
    /\ Idle
    /\ calls = <<>>
    /\ activeCardId = NULL

\* the drop target is none, or an id that is neither a column nor a card of
\* the store, or the dragged id is not a card of the store
InvalidDrop(over) ==
    \/ over[1] = "none"
    \/ ~HasCard(cards, dragging)
    \/ over[1] = "column" /\ ~HasColumn(columns, over[2])
    \/ over[1] = "card" /\ ~HasCard(cards, over[2])

\* C21: a drag-end without a valid drop target calls no context function
\* (so no gateway request is made) and leaves boards, columns, cards and
\* tags as they are.
C21_InvalidDropDoesNothing ==
    [][\A over \in DropTargets :
          (handleDragEnd(over) /\ InvalidDrop(over)) =>
              /\ calls' = calls
              /\ UNCHANGED <<boards, columns, cards, tags, db>>]_vars

\* C21: a drag is in progress whose card has meanwhile been deleted from
\* the store, so that its drag-end has no valid outcome.
C21_Witness ==
    /\ dragging # NULL
    /\ activeCardId = dragging
    /\ ~HasCard(cards, dragging)
    /\ calls = <<>>

\* this step is the handleDragEnd of a drop of a card of the store on the
\* element with the id of a column of the store
DropOnColumn(over) ==
    /\ handleDragEnd(over)
    /\ over[1] = "column"
    /\ HasColumn(columns, over[2])
    /\ HasCard(cards, dragging)

\* the largest position among the cards of the column, plus 1, or 0 for a
\* column without cards
AfterLast(cs, columnId) ==
    IF \E k \in DOMAIN cs : cs[k].column_id = columnId
    THEN CHOOSE p \in 1..(MaxPosition + 1) :
             /\ \E k \in DOMAIN cs : cs[k].column_id = columnId /\ cs[k].position = p - 1
             /\ \A k \in DOMAIN cs : cs[k].column_id = columnId => cs[k].position < p
    ELSE 0

\* C22: a drop of a card on a column makes exactly one updateCardPosition
\* call, for the dragged card, with the column's id and the position after
\* the last card of the column (0 for an empty column); and when that call
\* completes with success, the card's position is larger than that of every
\* other card of the destination column.
C22_DropOnColumnAppends ==
    [][/\ \A over \in DropTargets :
             DropOnColumn(over) =>
                 /\ Len(calls') = Len(calls) + 1
                 /\ \A j \in DOMAIN calls : calls'[j].op = calls[j].op
                 /\ calls'[Len(calls')].op = "updateCardPosition"
                 /\ calls'[Len(calls')].id = dragging
                 /\ calls'[Len(calls')].parent = over[2]
                 /\ calls'[Len(calls')].position = AfterLast(cards, over[2])
       /\ \A i \in DOMAIN calls :
             (MoveCompletes(i) /\ calls[i].kind = "column") =>
                 \A k \in EntriesOf(cards', calls[i].id) :
                     \A h \in DOMAIN cards' :
                         (cards'[h].column_id = calls[i].parent /\ cards'[h].id # calls[i].id)
                             => cards'[h].position < cards'[k].position]_vars

\* C22 for the request: the first conjunct of C22 alone
C22_DropOnColumnRequest ==
    [][\A over \in DropTargets :
          DropOnColumn(over) =>
              /\ Len(calls') = Len(calls) + 1
              /\ \A j \in DOMAIN calls : calls'[j].op = calls[j].op
              /\ calls'[Len(calls')].op = "updateCardPosition"
              /\ calls'[Len(calls')].id = dragging
              /\ calls'[Len(calls')].parent = over[2]
              /\ calls'[Len(calls')].position = AfterLast(cards, over[2])]_vars

\* this step is the handleDragEnd of a drop of a card of the store on a card
\* of the store that is in another column
DropOnCardOfOtherColumn(over) ==
    /\ handleDragEnd(over)
    /\ over[1] = "card"
    /\ HasCard(cards, dragging)
    /\ HasCard(cards, over[2])
    /\ FindCard(cards, over[2]).column_id # FindCard(cards, dragging).column_id

\* C23: a drop of a card on a card of a different column makes exactly one
\* updateCardPosition call, for the dragged card, with the column_id and the
\* position the target card has in the store at the drop; when that call
\* completes with success the dragged card has that column_id and exactly
\* that position, and every other card of the store, the target card and
\* the cards of the destination column among them, is what it was.
C23_DropOnCardTakesItsPlace ==
    [][/\ \A over \in DropTargets :
             DropOnCardOfOtherColumn(over) =>
                 /\ Len(calls') = Len(calls) + 1
                 /\ \A j \in DOMAIN calls : calls'[j].op = calls[j].op
                 /\ calls'[Len(calls')].op = "updateCardPosition"
                 /\ calls'[Len(calls')].kind = "card"
                 /\ calls'[Len(calls')].id = dragging
                 /\ \A k \in EntriesOf(cards, over[2]) :
                        /\ calls'[Len(calls')].parent = cards[k].column_id
                        /\ calls'[Len(calls')].position = cards[k].position
       /\ \A i \in DOMAIN calls :
             (MoveCompletes(i) /\ calls[i].kind = "card") =>
                 /\ DOMAIN cards' = DOMAIN cards
                 /\ \A k \in DOMAIN cards :
                        IF cards[k].id = calls[i].id
                        THEN /\ cards'[k].column_id = calls[i].parent
                             /\ cards'[k].position = calls[i].position
                             /\ cards'[k].id = cards[k].id
                             /\ cards'[k].title = cards[k].title
                             /\ cards'[k].tags = cards[k].tags
                        ELSE cards'[k] = cards[k]]_vars

\* C23: card 1 of column 1, dropped on card 2 of column 2 at position 0, is
\* in column 2 at position 0 with card 2, which is where it was.
C23_Witness ==
    /\ calls = <<>>
    /\ returned.op = "updateCardPosition"
    /\ Cardinality(EntriesOf(cards, 1)) = 1
    /\ Cardinality(EntriesOf(cards, 2)) = 1
    /\ FindCard(cards, 1).column_id = 2
    /\ FindCard(cards, 1).position = 0
    /\ FindCard(cards, 2).column_id = 2
    /\ FindCard(cards, 2).position = 0

\* this step is the handleDragEnd of a drop of a card of the store on a card
\* of the store that is in the same column
DropOnCardOfSameColumn(over) ==
    /\ handleDragEnd(over)
    /\ over[1] = "card"
    /\ HasCard(cards, dragging)
    /\ HasCard(cards, over[2])
    /\ FindCard(cards, over[2]).column_id = FindCard(cards, dragging).column_id

\* the index, from 0, of the card in the cards of its column sorted by
\* position
IndexInColumn(cs, cardId) ==
    IndexOfCard(SortedByPosition(CardsOfColumn(cs, FindCard(cs, cardId).column_id)), cardId) - 1

\* C24: a handleDragEnd changes nothing in the store and makes no call or
\* one updateCardPosition call for the dragged card; the gateway's update
\* changes no row but that card's; the call's completion changes no board,
\* column or tag and, of the cards, at most the column_id and position of
\* the entries with the dragged card's id; for a drop on a card of the same
\* column the call carries the column_id the card has and the index of the
\* target card in the column sorted by position, and these are what its
\* completion writes; a completion for an id that is not in the store leaves
\* the store as it is.
C24_DragEndWritesOneCard ==
    [][/\ \A over \in DropTargets :
             handleDragEnd(over) =>
                 /\ UNCHANGED <<boards, currentBoard, columns, cards, tags, db>>
                 /\ \/ calls' = calls
                    \/ /\ Len(calls') = Len(calls) + 1
                       /\ \A j \in DOMAIN calls : calls'[j].op = calls[j].op
                       /\ calls'[Len(calls')].op = "updateCardPosition"
                       /\ calls'[Len(calls')].id = dragging
       /\ \A over \in DropTargets :
             DropOnCardOfSameColumn(over) =>
                 /\ Len(calls') = Len(calls) + 1
                 /\ calls'[Len(calls')].kind = "reorder"
                 /\ calls'[Len(calls')].parent = FindCard(cards, dragging).column_id
                 /\ calls'[Len(calls')].from = FindCard(cards, dragging).column_id
                 /\ calls'[Len(calls')].position = IndexInColumn(cards, over[2])
       /\ \A i \in DOMAIN calls :
             dbUpdateCardPosition(i) =>
                 /\ {c \in dbCards : c.id # calls[i].id} = {c \in dbCards' : c.id # calls[i].id}
                 /\ UNCHANGED <<dbBoards, dbColumns, dbCardTags>>
       /\ \A i \in DOMAIN calls :
             (Resumes(i, "updateCardPosition", "update") /\ updateCardPositionResumes(i)) =>
                 /\ UNCHANGED <<boards, currentBoard, columns, tags>>
                 /\ DOMAIN cards' = DOMAIN cards
                 /\ \A k \in DOMAIN cards :
                        IF cards[k].id = calls[i].id
                        THEN /\ cards'[k].id = cards[k].id
                             /\ cards'[k].title = cards[k].title
                             /\ cards'[k].tags = cards[k].tags
                             /\ (calls[i].res = "ok" /\ calls[i].kind = "reorder") =>
                                    /\ cards'[k].column_id = calls[i].from
                                    /\ cards'[k].position = calls[i].position
                        ELSE cards'[k] = cards[k]
                 /\ ~HasCard(cards, calls[i].id) => cards' = cards]_vars

\* C24: card 1 at index 0 of column 1, dropped on card 2 at index 1, has
\* position 1 in column 1, and card 2 is where it was, at position 1.
C24_Witness ==
    /\ calls = <<>>
    /\ returned.op = "updateCardPosition"
    /\ Len(cards) = 2
    /\ FindCard(cards, 1).column_id = 1
    /\ FindCard(cards, 1).position = 1
    /\ HasCard(cards, 2)
    /\ FindCard(cards, 2).column_id = 1
    /\ FindCard(cards, 2).position = 1

\* C24: the response of an updateCardPosition for a card that is no longer
\* in the store is about to be handled.
C24_WitnessGone ==
    \E i \in DOMAIN calls :
        /\ Resumes(i, "updateCardPosition", "update")
        /\ calls[i].res = "ok"
        /\ ~HasCard(cards, calls[i].id)

\* C25: while a drag is in progress (after its handleDragStart and before
\* its handleDragEnd), activeCardId is the id of the card being dragged; also
\* while the handleDragEnd of an earlier drag awaits its updateCardPosition.
C25_ActiveIsDragged ==
    dragging # NULL => activeCardId = dragging

\* the call's read of the largest position has failed and the call goes on
ReadFailed(i, op) ==
    /\ Resumes(i, op, "read")
    /\ calls[i].res = "err"

\* C26: when the read of the largest position of a createCard or of a
\* createColumn fails, the call ends there, returning null, and sends no
\* insert; and no insert of a card or of a column that the gateway serves
\* has position 0 when the column or the board it goes to has a row already.
C26_FailedReadInsertsNothing ==
    [][/\ \A i \in DOMAIN calls :
             ((ReadFailed(i, "createCard") /\ createCardPosition(i))
                 \/ (ReadFailed(i, "createColumn") /\ createColumnPosition(i))) =>
                 /\ calls' = Returned(i)
                 /\ returned'.kind = "null"
       /\ \A i \in DOMAIN calls :
             (dbInsertCard(i) /\ dbCards' # dbCards /\ calls[i].position = 0) =>
                 \A c \in dbCards : c.column_id # calls[i].parent
       /\ \A i \in DOMAIN calls :
             (dbInsertColumn(i) /\ dbColumns' # dbColumns /\ calls[i].position = 0) =>
                 \A c \in dbColumns : c.board_id # calls[i].parent]_vars

\* C26 without the early return: no served insert has position 0 among
\* siblings
C26_NoInsertAtZeroAmongSiblings ==
    [][/\ \A i \in DOMAIN calls :
             (dbInsertCard(i) /\ dbCards' # dbCards /\ calls[i].position = 0) =>
                 \A c \in dbCards : c.column_id # calls[i].parent
       /\ \A i \in DOMAIN calls :
             (dbInsertColumn(i) /\ dbColumns' # dbColumns /\ calls[i].position = 0) =>
                 \A c \in dbColumns : c.board_id # calls[i].parent]_vars

\* C27: each card id occurs at most once in cards, each column id at most
\* once in columns and each board id at most once in boards, also when a
\* create completes around a fetch that replaces the collection.
C27_IdsOccurOnce ==
    /\ \A k, h \in DOMAIN cards : cards[k].id = cards[h].id => k = h
    /\ \A k, h \in DOMAIN columns : columns[k].id = columns[h].id => k = h
    /\ \A k, h \in DOMAIN boards : boards[k] = boards[h] => k = h

\* C28: whenever no call is outstanding, every column of the store has the
\* board_id of the current board, and columns and cards are empty when no
\* board is current.
C28_StoreIsOfCurrentBoard ==
    calls = <<>> =>
        /\ \A k \in DOMAIN columns : columns[k].board_id = currentBoard
        /\ currentBoard = NULL => (columns = <<>> /\ cards = <<>>)

\* C28 with a board selected: whenever no call is outstanding and a board is
\* current, every column of the store has its board_id.
C28_ColumnsOfSelectedBoard ==
    (calls = <<>> /\ currentBoard # NULL) =>
        \A k \in DOMAIN columns : columns[k].board_id = currentBoard

====
